---------------------------- MODULE Spec2Model ----------------------------
(***************************************************************************)
(* Model of the numerical core of seismic-simulator/streamlit_app.py:      *)
(* ricker, generar_sismo (the ground-motion synthesizer) and resolver_sdof *)
(* (the SDOF response solver), called by one script thread (Spec) or by    *)
(* two script threads sharing the process-wide numpy generator (SpecConc). *)
(*                                                                         *)
(* Numbers.  A float is an integer number of 1/Scale units with magnitude  *)
(* at most FloatMax; the single value NaN stands for every non-finite      *)
(* float (nan, +inf, -inf).  An operation whose result leaves the range,   *)
(* or that divides by zero, or that has a non-finite operand, yields NaN,  *)
(* as numpy's float64 arithmetic does at its own width (it warns, it does  *)
(* not raise).  Times are integers; Dt time units are the 0.01 s of the    *)
(* source, so that the Runge-Kutta nodes h/5, 3h/10, 4h/5, 8h/9 of the     *)
(* steps taken are whole numbers.                                          *)
(***************************************************************************)
EXTENDS Integers, Sequences, FiniteSets, TLC

(***************************************************************************)
(* Bounds of the model.                                                    *)
(***************************************************************************)
Scale == 1000
FloatMax == 2000000

(* dt = 0.01 s, in time units.  One second is 100 * Dt time units.         *)
Dt == 180
OneSec == 100 * Dt

(* The script threads of the process; Main runs the model's solver calls.  *)
Threads == {"main", "other"}
Main == "main"

-----------------------------------------------------------------------------
(***************************************************************************)
(* float64 arithmetic at the model's width.                                *)
(***************************************************************************)
NaN == FloatMax + 1

Abs(a) == IF a < 0 THEN -a ELSE a

(* Integer quotient rounded toward zero, for b > 0.                        *)
TDiv(a, b) == IF a >= 0 THEN a \div b ELSE -((-a) \div b)

Fin(r) == IF r > FloatMax \/ r < -FloatMax THEN NaN ELSE r

IsFinite(a) == a # NaN

(* The float nearest n/d.                                                  *)
Lit(n, d) == TDiv(n * Scale, d)

(* a * n / d rounded toward zero (d > 0), or NaN when it leaves the float  *)
(* range; computed by parts so that no intermediate product is larger than *)
(* the machine integers of TLC.                                            *)
MulDiv(a, n, d) ==
    LET q == Abs(a) \div d
        r == Abs(a) % d
        sgn == IF (a < 0) = (n < 0) THEN 1 ELSE -1
    IN  IF q > 0 /\ Abs(n) > FloatMax \div q THEN NaN
        ELSE Fin(sgn * (q * Abs(n) + (r * Abs(n)) \div d))

FNeg(a) == IF a = NaN THEN NaN ELSE -a
FAdd(a, b) == IF a = NaN \/ b = NaN THEN NaN ELSE Fin(a + b)
FSub(a, b) == IF a = NaN \/ b = NaN THEN NaN ELSE Fin(a - b)
FMul(a, b) == IF a = NaN \/ b = NaN THEN NaN ELSE MulDiv(a, b, Scale)
FDiv(a, b) ==
    IF a = NaN \/ b = NaN \/ b = 0 THEN NaN
    ELSE IF b > 0 THEN MulDiv(a, Scale, b) ELSE MulDiv(-a, Scale, -b)

(* A float times the rational n/d (d > 0), rounded once.                   *)
FRat(a, n, d) == IF a = NaN THEN NaN ELSE MulDiv(a, n, d)

AllFinite(s) == \A i \in 1..Len(s) : IsFinite(s[i])
AllZero(s) == \A i \in 1..Len(s) : s[i] = 0

(* builtin max(abs(a)) of a non-empty array; any NaN compares false and    *)
(* the running maximum keeps its value unless the first element is NaN.    *)
RECURSIVE MaxAbsFrom(_, _, _)
MaxAbsFrom(s, i, best) ==
    IF i > Len(s) THEN best
    ELSE MaxAbsFrom(s, i + 1,
            IF best = NaN \/ s[i] = NaN THEN best
            ELSE IF Abs(s[i]) > best THEN Abs(s[i]) ELSE best)

(* The first sample taken for the peak.                                    *)
MaxAbsFirst(s) == IF s[1] = NaN THEN NaN ELSE Abs(s[1])

MaxAbs(s) == MaxAbsFrom(s, 2, IF s[1] = NaN THEN NaN ELSE Abs(s[1]))

-----------------------------------------------------------------------------
(***************************************************************************)
(* np.arange(0, T, dt): the grid 0, Dt, 2 Dt, ... below T.                 *)
(***************************************************************************)
CeilDiv(a, b) == (a + b - 1) \div b

(* np.arange taken to stop at the last whole step.                         *)
GridLenFloor(T) == IF T <= 0 THEN 0 ELSE T \div Dt

GridLen(T) == IF T <= 0 THEN 0 ELSE CeilDiv(T, Dt)

Arange(T) == [i \in 1..GridLen(T) |-> (i - 1) * Dt]

(***************************************************************************)
(* np.exp(-a) for a float a >= 0: a table of e^(-j/4) in hundredths,       *)
(* zero (underflow at the model's resolution) past its end.                *)
(***************************************************************************)
ExpTable ==
    <<100, 78, 61, 47, 37, 29, 22, 17, 14, 11, 8, 6, 5, 4, 3, 2, 2, 1, 1, 1, 1>>

ExpNeg(a) ==
    LET j == TDiv(4 * a, Scale) + 1
    IN  IF j > Len(ExpTable) THEN 0 ELSE Lit(ExpTable[j], 100)

Pi == Lit(314, 100)

(* The largest |pi f0 tau| whose exp(-a) is not yet zero in ExpTable.      *)
XCut == Lit(5, 2)

(***************************************************************************)
(* ricker(t, t0, f0) at one sample.  tau6 is 6 (t - t0) in time units (the *)
(* arrivals T/3, T/2, 2T/3 are whole sixths of T).                         *)
(***************************************************************************)
ricker(tau6, f0) ==
    LET tauCap == IF Abs(tau6) > 6 * OneSec THEN 6 * OneSec ELSE Abs(tau6)
        tau == TDiv(tauCap * Scale, 6 * OneSec)
        x == TDiv(TDiv(Pi * f0, Scale) * tau, Scale)
        a == TDiv(x * x, Scale)
    IN  IF x >= XCut THEN 0
        ELSE TDiv((Scale - 2 * a) * ExpNeg(a), Scale)

(* The superposition of the five wavelets at grid time t.                  *)
BaseSignal(T, t) ==
      TDiv(Lit(8, 10)  * ricker(6 * t - (2 * T - 30 * OneSec), Lit(1, 1)),   Scale)
    + TDiv(Lit(12, 10) * ricker(6 * t - 2 * T,                 Lit(25, 10)), Scale)
    + TDiv(Lit(6, 10)  * ricker(6 * t - (2 * T + 30 * OneSec), Lit(4, 1)),   Scale)
    + TDiv(Lit(3, 10)  * ricker(6 * t - 3 * T,                 Lit(12, 10)), Scale)
    + TDiv(Lit(4, 10)  * ricker(6 * t - 4 * T,                 Lit(3, 1)),   Scale)

(* env = exp(-((t - T/2) / (T/4))^2) at grid time t (T > 0 on the grid).   *)
Envelope(T, t) ==
    LET u == TDiv((4 * t - 2 * T) * Scale, T)
    IN  ExpNeg(TDiv(u * u, Scale))

(* acc after "acc *= env", lines 121-131.                                  *)
EnvelopedSignal(T) ==
    [i \in 1..GridLen(T) |->
        FMul(BaseSignal(T, (i - 1) * Dt), Envelope(T, (i - 1) * Dt))]

(***************************************************************************)
(* The process-wide generator np.random: its state is the seed it was last *)
(* seeded with and the number of normal samples drawn since.  Randn is the *)
(* sample that state yields, a float in [-3, 3].                           *)
(***************************************************************************)
Randn(seed, pos) ==
    Lit(((seed * 7919 + pos * 10473 + 12345) % 601) - 300, 100)

(* A seed call that leaves the generator as it is.                         *)
SeedRngKeep(g, seed) == g

(* np.random.seed(seed)                                                    *)
SeedRng(g, seed) == [seed |-> seed, pos |-> 0]

(* np.random.randn(n): the n samples, and the state after them.            *)
RandnArray(g, n) == [i \in 1..n |-> Randn(g.seed, g.pos + i - 1)]
RngAfter(g, n) == [g EXCEPT !.pos = g.pos + n]

(* acc += 0.05 * np.random.randn(len(t)), line 135.                        *)
AddNoise(acc, noise) ==
    [i \in 1..Len(acc) |-> FAdd(acc[i], FMul(Lit(5, 100), noise[i]))]

(* acc / max(abs(acc)) * (0.6 * intensidad), line 138, acc non-empty.      *)
Normalize(acc, intensidad) ==
    LET peak == MaxAbs(acc)
    IN  [i \in 1..Len(acc) |->
            FMul(FDiv(acc[i], peak), FMul(Lit(6, 10), intensidad))]

-----------------------------------------------------------------------------
(***************************************************************************)
(* resolver_sdof's numerics.                                               *)
(***************************************************************************)

(* F_t = -m * acc_ground, line 150.                                        *)
SeismicForce(m, acc_ground) ==
    [i \in 1..Len(acc_ground) |-> FMul(FNeg(m), acc_ground[i])]

(* The index j of the grid interval [t[j], t[j+1]) that holds ti.          *)
IntervalOf(ti) == ti \div Dt + 1

(* The forcing held at the sample before ti, with no interpolation.        *)
InterpHold(ti, t, F_t) ==
    IF ti <= t[1] THEN F_t[1]
    ELSE IF ti >= t[Len(t)] THEN F_t[Len(t)]
    ELSE F_t[IntervalOf(ti)]

(* np.interp(ti, t, F_t) on a non-empty grid: the end values outside the   *)
(* grid, the sample itself at a grid time, the chord between the two       *)
(* bracketing samples inside an interval.                                  *)
Interp(ti, t, F_t) ==
    LET n == Len(t)
        j == IntervalOf(ti)
    IN  IF ti <= t[1] THEN F_t[1]
        ELSE IF ti >= t[n] THEN F_t[n]
        ELSE IF ti = t[j] THEN F_t[j]
        ELSE FAdd(F_t[j], FRat(FSub(F_t[j + 1], F_t[j]), ti - t[j], t[j + 1] - t[j]))

(* modelo_sdof(ti, y), lines 152-157: [v, (Fi - c v - k x) / m].           *)
modelo_sdof(ti, y, m, c, k, t, F_t) ==
    LET x == y[1]
        v == y[2]
        Fi == Interp(ti, t, F_t)
        a == FDiv(FSub(FSub(Fi, FMul(c, v)), FMul(k, x)), m)
    IN  <<v, a>>

(* A structure that starts with a velocity.                                *)
Y0Moving == <<0, Lit(1, 1)>>

(* y0 = [0, 0], line 160.                                                  *)
Y0 == <<0, 0>>

(***************************************************************************)
(* One step of size h of the explicit Runge-Kutta pair of order 5(4)       *)
(* (method='RK45', the Dormand-Prince tableau) from (t0, y).  A stage sum  *)
(* is a sequence of <<stage, numerator, denominator>> weights.             *)
(***************************************************************************)
RECURSIVE WeightedSum(_, _, _, _)
WeightedSum(K, w, i, comp) ==
    IF i > Len(w) THEN 0
    ELSE FAdd(FRat(K[w[i][1]][comp], w[i][2], w[i][3]),
              WeightedSum(K, w, i + 1, comp))

(* y + h * (sum of the weighted stages), h in time units.                  *)
Advance(y, h, K, w) ==
    [comp \in 1..2 |-> FAdd(y[comp], FRat(WeightedSum(K, w, 1, comp), h, OneSec))]

StageWeights ==
    << << >>,
       << <<1, 1, 5>> >>,
       << <<1, 3, 40>>, <<2, 9, 40>> >>,
       << <<1, 44, 45>>, <<2, -56, 15>>, <<3, 32, 9>> >>,
       << <<1, 19372, 6561>>, <<2, -25360, 2187>>, <<3, 64448, 6561>>,
          <<4, -212, 729>> >>,
       << <<1, 9017, 3168>>, <<2, -355, 33>>, <<3, 46732, 5247>>,
          <<4, 49, 176>>, <<5, -5103, 18656>> >>,
       << <<1, 35, 384>>, <<3, 500, 1113>>, <<4, 125, 192>>,
          <<5, -2187, 6784>>, <<6, 11, 84>> >> >>

(* The stage times t0 + c h, c = 0, 1/5, 3/10, 4/5, 8/9, 1, 1.             *)
StageTimes(t0, h) ==
    <<t0, t0 + h \div 5, t0 + (3 * h) \div 10, t0 + (4 * h) \div 5,
      t0 + (8 * h) \div 9, t0 + h, t0 + h>>

(* The stages K[1..j] computed so far give stage j+1.                      *)
RECURSIVE Stages(_, _, _, _, _, _, _, _, _)
Stages(K, t0, y, h, m, c, k, t, F_t) ==
    IF Len(K) = 7 THEN K
    ELSE LET j == Len(K) + 1
             yj == Advance(y, h, K, StageWeights[j])
         IN  Stages(Append(K, modelo_sdof(StageTimes(t0, h)[j], yj, m, c, k, t, F_t)),
                    t0, y, h, m, c, k, t, F_t)

(* The step's result: the new state (the argument of the seventh stage)    *)
(* and whether every number in it was finite, without which the error      *)
(* norm is not below 1 and the step is rejected.                           *)
RkStep(t0, y, h, m, c, k, t, F_t) ==
    LET K == Stages(<< >>, t0, y, h, m, c, k, t, F_t)
        yNew == Advance(y, h, K, StageWeights[7])
    IN  [y |-> yNew,
         ok |-> /\ AllFinite(yNew)
                /\ \A j \in 1..7 : AllFinite(K[j])]

(* The times at which the step calls modelo_sdof, each with the forcing    *)
(* the call used.                                                          *)
StepEvals(t0, h, t, F_t) ==
    {[ti |-> StageTimes(t0, h)[j], Fi |-> Interp(StageTimes(t0, h)[j], t, F_t)] :
        j \in 1..7}

(* np.gradient(v, dt) for at least two samples: one-sided differences at   *)
(* the ends, central differences inside.                                   *)
Gradient(v) ==
    LET n == Len(v)
        dt == Lit(1, 100)
    IN  [i \in 1..n |->
            IF i = 1 THEN FDiv(FSub(v[2], v[1]), dt)
            ELSE IF i = n THEN FDiv(FSub(v[n], v[n - 1]), dt)
            ELSE FDiv(FSub(v[i + 1], v[i - 1]), FMul(Lit(2, 1), dt))]

(* 0.5 * coef * s**2, elementwise, lines 167-168.                          *)
HalfSquare(coef, s) ==
    [i \in 1..Len(s) |-> FMul(FMul(Lit(1, 2), coef), FMul(s[i], s[i]))]

VecAdd(a, b) == [i \in 1..Len(a) |-> FAdd(a[i], b[i])]

-----------------------------------------------------------------------------
(***************************************************************************)
(* Inputs of the calls the model makes.  Durations are in time units: 90   *)
(* is half a step, 270 a step and a half; 0 and the intensity 0 violate    *)
(* the stated constraints, as the mass 0 does.                             *)
(***************************************************************************)
Durations == {0, 90, 270, 360, 540}
Intensities == {0, Lit(1, 1), Lit(5, 2)}
Seeds == {0, 1}

(* The mass FloatMax is valid, and -m * acc_ground overflows with it.      *)
Masses == {0, Lit(1, 1), FloatMax}
Dampings == {0, Lit(1, 2)}
Stiffnesses == {Lit(20, 1), Lit(100, 1)}

(* Ground records on the grid of T: at rest, a constant pull, a pull that  *)
(* sets in at the last sample, a pull that changes sign at every sample.   *)
GroundRecords(T) ==
    LET n == GridLen(T)
        A == Lit(100, 1)
    IN  { [i \in 1..n |-> 0],
          [i \in 1..n |-> A],
          [i \in 1..n |-> IF i = n THEN A ELSE 0],
          [i \in 1..n |-> IF i % 2 = 1 THEN A ELSE -A] }

(* The step sizes the step control settles on: max_step, and half of it.   *)
StepSizes == {Dt \div 2, Dt}

(* What the generator is seeded with at process start (OS entropy).        *)
EntropySeeds == {17, 23}

NoArgs == [T |-> 0, intensidad |-> 0, seed |-> 0,
           m |-> 0, c |-> 0, k |-> 0, acc_ground |-> << >>]

NoLocals == [t |-> << >>, acc |-> << >>, F_t |-> << >>]

NoResult ==
    [kind |-> "pending", exc |-> "", t |-> << >>, acc |-> << >>,
     x |-> << >>, v |-> << >>, a |-> << >>,
     E_cinetica |-> << >>, E_potencial |-> << >>, E_total |-> << >>]

ValidSynth(a) == a.T > 0 /\ a.intensidad > 0
ValidSolve(a) == a.m > 0 /\ a.k > 0 /\ a.c >= 0 /\ a.T > 0

VARIABLES
    rng,      \* the process-wide numpy generator
    emitted,  \* the messages st.error has put on the page
    pc,       \* each thread's position
    op,       \* the function each thread is in
    args,     \* its arguments
    loc,      \* its local arrays
    ret,      \* what the last call of the thread returned or raised
    sol,      \* solve_ivp's state, in the thread that runs resolver_sdof
    seen      \* one earlier call of generar_sismo and its result, kept for comparison

vars == <<rng, emitted, pc, op, args, loc, ret, sol, seen>>

NoSol == [t |-> 0, y |-> <<0, 0>>, x |-> << >>, v |-> << >>,
          status |-> "none", evals |-> {}]

NotSeen == [args |-> NoArgs, ret |-> NoResult]

Init ==
    /\ rng \in [seed : EntropySeeds, pos : {0}]
    /\ emitted = {}
    /\ pc = [th \in Threads |-> "idle"]
    /\ op = [th \in Threads |-> "none"]
    /\ args = [th \in Threads |-> NoArgs]
    /\ loc = [th \in Threads |-> NoLocals]
    /\ ret = [th \in Threads |-> NoResult]
    /\ sol = NoSol
    /\ seen = NotSeen

-----------------------------------------------------------------------------
(***************************************************************************)
(* generar_sismo(T, intensidad, seed), lines 115-140, one action per       *)
(* statement group; another thread may run between any two of them.        *)
(***************************************************************************)
CallGenerarSismo(th) ==
    /\ pc[th] = "idle"
    /\ \E T \in Durations, i \in Intensities, s \in Seeds :
          args' = [args EXCEPT ![th] =
                      [NoArgs EXCEPT !.T = T, !.intensidad = i, !.seed = s]]
    /\ op' = [op EXCEPT ![th] = "generar_sismo"]
    /\ pc' = [pc EXCEPT ![th] = "g_grid"]
    /\ loc' = [loc EXCEPT ![th] = NoLocals]
    /\ ret' = [ret EXCEPT ![th] = NoResult]
    /\ UNCHANGED <<rng, emitted, sol, seen>>

(* Lines 117-131: the grid, the wavelets, the envelope.                    *)
GBuild(th) ==
    /\ pc[th] = "g_grid"
    /\ loc' = [loc EXCEPT ![th] =
                  [NoLocals EXCEPT !.t = Arange(args[th].T),
                                   !.acc = EnvelopedSignal(args[th].T)]]
    /\ pc' = [pc EXCEPT ![th] = "g_seed"]
    /\ UNCHANGED <<rng, emitted, op, args, ret, sol, seen>>

(* Line 134: np.random.seed(seed).                                         *)
GSeed(th) ==
    /\ pc[th] = "g_seed"
    /\ rng' = SeedRng(rng, args[th].seed)
    /\ pc' = [pc EXCEPT ![th] = "g_draw"]
    /\ UNCHANGED <<emitted, op, args, loc, ret, sol, seen>>

(* Line 135: acc += 0.05 * np.random.randn(len(t)).                        *)
GDraw(th) ==
    /\ pc[th] = "g_draw"
    /\ LET n == Len(loc[th].t)
       IN  /\ loc' = [loc EXCEPT ![th].acc =
                         AddNoise(loc[th].acc, RandnArray(rng, n))]
           /\ rng' = RngAfter(rng, n)
    /\ pc' = [pc EXCEPT ![th] = "g_norm"]
    /\ UNCHANGED <<emitted, op, args, ret, sol, seen>>

(* Line 138.  builtin max of an empty array raises ValueError, which       *)
(* nothing in generar_sismo catches.                                       *)
GNormalize(th) ==
    /\ pc[th] = "g_norm"
    /\ IF Len(loc[th].acc) = 0
       THEN /\ ret' = [ret EXCEPT ![th] =
                          [NoResult EXCEPT !.kind = "raise", !.exc = "ValueError"]]
            /\ pc' = [pc EXCEPT ![th] = "done"]
            /\ UNCHANGED loc
       ELSE /\ loc' = [loc EXCEPT ![th].acc =
                          Normalize(loc[th].acc, args[th].intensidad)]
            /\ pc' = [pc EXCEPT ![th] = "g_ret"]
            /\ UNCHANGED ret
    /\ UNCHANGED <<rng, emitted, op, args, sol, seen>>

(* Line 140: return t, acc.                                                *)
GReturn(th) ==
    /\ pc[th] = "g_ret"
    /\ ret' = [ret EXCEPT ![th] =
                  [NoResult EXCEPT !.kind = "record",
                                   !.t = loc[th].t, !.acc = loc[th].acc]]
    /\ pc' = [pc EXCEPT ![th] = "done"]
    /\ UNCHANGED <<rng, emitted, op, args, loc, sol, seen>>

(* The caller takes the result and the frame of the call is gone.  The     *)
(* script, lines 183-185, reports a None from resolver_sdof and stops.     *)
Finish(th) ==
    /\ pc[th] = "done"
    /\ emitted' = IF op[th] = "resolver_sdof" /\ ret[th].kind = "None"
                  THEN emitted \cup {"No se pudo calcular la respuesta"}
                  ELSE emitted
    /\ pc' = [pc EXCEPT ![th] = "idle"]
    /\ op' = [op EXCEPT ![th] = "none"]
    /\ args' = [args EXCEPT ![th] = NoArgs]
    /\ loc' = [loc EXCEPT ![th] = NoLocals]
    /\ ret' = [ret EXCEPT ![th] = NoResult]
    /\ sol' = NoSol
    /\ UNCHANGED <<rng, seen>>

(* The same, by a caller that keeps the call of generar_sismo and what it  *)
(* returned, to compare later calls with.                                  *)
FinishKeeping ==
    /\ pc[Main] = "done"
    /\ op[Main] = "generar_sismo"
    /\ seen' = [args |-> args[Main], ret |-> ret[Main]]
    /\ pc' = [pc EXCEPT ![Main] = "idle"]
    /\ op' = [op EXCEPT ![Main] = "none"]
    /\ args' = [args EXCEPT ![Main] = NoArgs]
    /\ loc' = [loc EXCEPT ![Main] = NoLocals]
    /\ ret' = [ret EXCEPT ![Main] = NoResult]
    /\ UNCHANGED <<rng, emitted, sol>>

GenerarSismo(th) ==
    \/ CallGenerarSismo(th)
    \/ GBuild(th)
    \/ GSeed(th)
    \/ GDraw(th)
    \/ GNormalize(th)
    \/ GReturn(th)

-----------------------------------------------------------------------------
(***************************************************************************)
(* resolver_sdof(m, c, k, T, acc_ground), lines 146-174, in thread Main.   *)
(***************************************************************************)
CallResolverSdof ==
    /\ pc[Main] = "idle"
    /\ \E m \in Masses, c \in Dampings, k \in Stiffnesses, T \in Durations :
          \E g \in GroundRecords(T) :
             args' = [args EXCEPT ![Main] =
                         [NoArgs EXCEPT !.m = m, !.c = c, !.k = k, !.T = T,
                                        !.acc_ground = g]]
    /\ op' = [op EXCEPT ![Main] = "resolver_sdof"]
    /\ pc' = [pc EXCEPT ![Main] = "r_grid"]
    /\ loc' = [loc EXCEPT ![Main] = NoLocals]
    /\ ret' = [ret EXCEPT ![Main] = NoResult]
    /\ sol' = NoSol
    /\ UNCHANGED <<rng, emitted, seen>>

(* Lines 148-150: the grid and the seismic force on it.                    *)
RSetup ==
    /\ pc[Main] = "r_grid"
    /\ loc' = [loc EXCEPT ![Main] =
                  [NoLocals EXCEPT !.t = Arange(args[Main].T),
                                   !.F_t = SeismicForce(args[Main].m,
                                                        args[Main].acc_ground)]]
    /\ pc' = [pc EXCEPT ![Main] = "r_ivp"]
    /\ UNCHANGED <<rng, emitted, op, args, ret, sol, seen>>

(* except Exception as e (lines 172-174): the message goes to the page and *)
(* the call returns None.                                                  *)
ExceptReturnNone(exc) ==
    /\ emitted' = emitted \cup {"Error al resolver la ecuacion diferencial"}
    /\ ret' = [ret EXCEPT ![Main] = [NoResult EXCEPT !.kind = "None", !.exc = exc]]
    /\ pc' = [pc EXCEPT ![Main] = "done"]

(* Line 161, entry of solve_ivp: the solver is set up at (0, y0) and calls *)
(* modelo_sdof there; np.interp raises ValueError on an empty grid.        *)
IvpInit ==
    /\ pc[Main] = "r_ivp"
    /\ IF Len(loc[Main].t) = 0
       THEN /\ ExceptReturnNone("ValueError")
            /\ sol' = [NoSol EXCEPT !.status = "raised"]
       ELSE /\ sol' = [NoSol EXCEPT !.y = Y0, !.status = "running",
                          !.evals = {[ti |-> 0,
                                      Fi |-> Interp(0, loc[Main].t, loc[Main].F_t)]}]
            /\ pc' = [pc EXCEPT ![Main] = "r_step"]
            /\ UNCHANGED <<emitted, ret>>
    /\ UNCHANGED <<rng, op, args, loc, seen>>

(* The end of the step that starts at time t0: the next grid time, or T.   *)
StepTarget(t0, T) ==
    IF (t0 \div Dt + 1) * Dt < T THEN (t0 \div Dt + 1) * Dt ELSE T

StepFrom(h) ==
    RkStep(sol.t, sol.y, h, args[Main].m, args[Main].c, args[Main].k,
           loc[Main].t, loc[Main].F_t)

(* The samples solve_ivp stores after a step from t0 to t1: the values at  *)
(* the times of t_eval in reach that it has not stored yet, which are the  *)
(* step's start at the first step and the step's end when on the grid.     *)
NewSamples(t0, t1, T, comp, yOld, yNew) ==
    (IF t0 = 0 THEN <<yOld[comp]>> ELSE << >>)
    \o (IF t1 % Dt = 0 /\ t1 < T THEN <<yNew[comp]>> ELSE << >>)

(* One accepted step of size h <= max_step.  The step ends on the grid or  *)
(* at T, so the values stored for t_eval are states the solver stood at.   *)
IvpStep ==
    /\ pc[Main] = "r_step"
    /\ \E h \in StepSizes :
          LET t1 == sol.t + h
              r == StepFrom(h)
          IN  /\ t1 <= StepTarget(sol.t, args[Main].T)
              /\ r.ok
              /\ sol' = [t |-> t1,
                         y |-> r.y,
                         x |-> sol.x \o NewSamples(sol.t, t1, args[Main].T, 1, sol.y, r.y),
                         v |-> sol.v \o NewSamples(sol.t, t1, args[Main].T, 2, sol.y, r.y),
                         status |-> IF t1 = args[Main].T THEN "finished" ELSE "running",
                         evals |-> StepEvals(sol.t, h, loc[Main].t, loc[Main].F_t)]
              /\ pc' = [pc EXCEPT ![Main] =
                           IF t1 = args[Main].T THEN "r_post" ELSE "r_step"]
    /\ UNCHANGED <<rng, emitted, op, args, loc, ret, seen>>

(* The step is rejected at every size down to the smallest: solve_ivp      *)
(* ends with status -1 ("Required step size is less than spacing between   *)
(* numbers") and the samples stored so far.                                *)
IvpFail ==
    /\ pc[Main] = "r_step"
    /\ ~StepFrom(Dt \div 2).ok
    /\ sol' = [sol EXCEPT !.status = "failed",
                          !.evals = StepEvals(sol.t, Dt \div 2, loc[Main].t, loc[Main].F_t)]
    /\ pc' = [pc EXCEPT ![Main] = "r_post"]
    /\ UNCHANGED <<rng, emitted, op, args, loc, ret, seen>>

(* Lines 162-171.  sol.y is an empty list when no sample was stored, and   *)
(* sol.y[0] raises IndexError; np.gradient raises ValueError on fewer than *)
(* two samples; both end in the except clause.  sol.success is not read.   *)
RPost ==
    /\ pc[Main] = "r_post"
    /\ IF Len(sol.x) = 0 THEN ExceptReturnNone("IndexError")
       ELSE IF Len(sol.v) < 2 THEN ExceptReturnNone("ValueError")
       ELSE /\ ret' = [ret EXCEPT ![Main] =
                  [kind |-> "tuple", exc |-> "",
                   t |-> loc[Main].t, acc |-> << >>,
                   x |-> sol.x, v |-> sol.v, a |-> Gradient(sol.v),
                   E_cinetica |-> HalfSquare(args[Main].m, sol.v),
                   E_potencial |-> HalfSquare(args[Main].k, sol.x),
                   E_total |-> VecAdd(HalfSquare(args[Main].m, sol.v),
                                      HalfSquare(args[Main].k, sol.x))]]
            /\ pc' = [pc EXCEPT ![Main] = "done"]
            /\ UNCHANGED emitted
    /\ UNCHANGED <<rng, op, args, loc, sol, seen>>

ResolverSdof ==
    \/ CallResolverSdof
    \/ RSetup
    \/ IvpInit
    \/ IvpStep
    \/ IvpFail
    \/ RPost

Next == GenerarSismo(Main) \/ ResolverSdof \/ Finish(Main)

Spec == Init /\ [][Next]_vars

(* One thread that only synthesizes, and keeps results for comparison.     *)
NextSynth == GenerarSismo(Main) \/ FinishKeeping \/ Finish(Main)

SpecSynth == Init /\ [][NextSynth]_vars

(* Two script threads of the same process, each synthesizing.              *)
NextConc == \E th \in Threads : GenerarSismo(th) \/ Finish(th)

SpecConc == Init /\ [][NextConc]_vars

(***************************************************************************)
(* The normalization statement, line 138, on its own: generar_sismo stands *)
(* before it with any raw signal of a bounded set in acc, the zero signal  *)
(* included.                                                               *)
(***************************************************************************)
RawLevels == {-Lit(1, 2), 0, Lit(1, 1)}

InitNorm ==
    /\ \E T \in Durations \ {0}, i \in Intensities \ {0}, s \in Seeds :
          /\ args = [th \in Threads |->
                       IF th = Main
                       THEN [NoArgs EXCEPT !.T = T, !.intensidad = i, !.seed = s]
                       ELSE NoArgs]
          /\ rng = [seed |-> s, pos |-> GridLen(T)]
          /\ \E raw \in [1..GridLen(T) -> RawLevels] :
                loc = [th \in Threads |->
                         IF th = Main
                         THEN [NoLocals EXCEPT !.t = Arange(T), !.acc = raw]
                         ELSE NoLocals]
    /\ emitted = {}
    /\ pc = [th \in Threads |-> IF th = Main THEN "g_norm" ELSE "idle"]
    /\ op = [th \in Threads |-> IF th = Main THEN "generar_sismo" ELSE "none"]
    /\ ret = [th \in Threads |-> NoResult]
    /\ sol = NoSol
    /\ seen = NotSeen

NextNorm == GNormalize(Main) \/ GReturn(Main)

SpecNorm == InitNorm /\ [][NextNorm]_vars

-----------------------------------------------------------------------------
(***************************************************************************)
(* The claims.                                                             *)
(***************************************************************************)
Invalid(th) ==
    \/ op[th] = "generar_sismo" /\ ~ValidSynth(args[th])
    \/ op[th] = "resolver_sdof" /\ ~ValidSolve(args[th])

(* C1: a call of generar_sismo or resolver_sdof with a parameter outside   *)
(* its constraint fails with InvalidParameterError before anything is      *)
(* done: it is at its entry, or it has raised that error with no grid      *)
(* built, no noise drawn and the integrator not invoked.                   *)
C1_InvalidFailsFirst ==
    \A th \in Threads :
        Invalid(th) =>
            \/ pc[th] \in {"g_grid", "r_grid"}
            \/ /\ pc[th] = "done"
               /\ ret[th].kind = "raise"
               /\ ret[th].exc = "InvalidParameterError"
               /\ loc[th] = NoLocals
               /\ sol.status = "none"

IntegrationFailed ==
    \/ sol.status = "failed"
    \/ ~AllFinite(sol.x)
    \/ ~AllFinite(sol.v)

(* C2: when the integrator reports failure, or a displacement or velocity  *)
(* it returned is not finite, resolver_sdof returns no tuple of series,    *)
(* whole or truncated.                                                     *)
C2_NoResultOnFailure ==
    (op[Main] = "resolver_sdof" /\ pc[Main] = "done" /\ IntegrationFailed)
        => ret[Main].kind # "tuple"

OnGrid(t) == \A i \in 1..Len(t) : t[i] = (i - 1) * Dt

SixSeries(r) == {r.x, r.v, r.a, r.E_cinetica, r.E_potencial, r.E_total}

(* C3, as stated: for valid parameters every series returned by            *)
(* generar_sismo and by resolver_sdof has floor(T / dt) samples on the     *)
(* grid i dt.                                                              *)
C3_FloorLength ==
    \A th \in Threads :
        /\ (ret[th].kind = "record" /\ ValidSynth(args[th])) =>
              /\ Len(ret[th].t) = args[th].T \div Dt
              /\ Len(ret[th].acc) = args[th].T \div Dt
              /\ OnGrid(ret[th].t)
        /\ (ret[th].kind = "tuple" /\ ValidSolve(args[th])) =>
              /\ Len(ret[th].t) = args[th].T \div Dt
              /\ OnGrid(ret[th].t)
              /\ \A q \in SixSeries(ret[th]) : Len(q) = args[th].T \div Dt

(* C3, amended: for valid parameters the time vector and the acceleration  *)
(* returned by generar_sismo, and the time vector returned by              *)
(* resolver_sdof, have ceil(T / dt) samples on the grid i dt; the six      *)
(* response series have one common length, at most ceil(T / dt), and       *)
(* ceil(T / dt) when the integrator finished.                              *)
C3_CeilLength ==
    \A th \in Threads :
        /\ (ret[th].kind = "record" /\ ValidSynth(args[th])) =>
              /\ Len(ret[th].t) = CeilDiv(args[th].T, Dt)
              /\ Len(ret[th].acc) = CeilDiv(args[th].T, Dt)
              /\ OnGrid(ret[th].t)
        /\ (ret[th].kind = "tuple" /\ ValidSolve(args[th])) =>
              /\ Len(ret[th].t) = CeilDiv(args[th].T, Dt)
              /\ OnGrid(ret[th].t)
              /\ \A q \in SixSeries(ret[th]) : Len(q) = Len(ret[th].x)
              /\ Len(ret[th].x) <= CeilDiv(args[th].T, Dt)
              /\ sol.status = "finished" => Len(ret[th].x) = CeilDiv(args[th].T, Dt)

(* A solve over a duration of a step and a half has returned its tuple.    *)
C3_Witness ==
    /\ ret[Main].kind = "tuple"
    /\ ValidSolve(args[Main])
    /\ args[Main].T % Dt # 0
    /\ sol.status = "finished"
    /\ Len(ret[Main].x) = CeilDiv(args[Main].T, Dt)

(* C4: a call of generar_sismo with the arguments of an earlier call       *)
(* returns the arrays the earlier call returned, whatever was called in    *)
(* between.                                                                *)
C4_Deterministic ==
    (/\ pc[Main] = "done"
     /\ op[Main] = "generar_sismo"
     /\ seen.ret.kind # "pending"
     /\ args[Main] = seen.args)
        => ret[Main] = seen.ret

(* A later call with the arguments of a kept one has returned a record of  *)
(* three samples.                                                          *)
C4_Witness ==
    /\ pc[Main] = "done"
    /\ op[Main] = "generar_sismo"
    /\ args[Main] = seen.args
    /\ ret[Main].kind = "record"
    /\ Len(ret[Main].acc) = 3

(* What generar_sismo returns for arguments a when nothing else runs.      *)
RecordAlone(a) ==
    Normalize(AddNoise(EnvelopedSignal(a.T),
                       RandnArray([seed |-> a.seed, pos |-> 0], GridLen(a.T))),
              a.intensidad)

(* C5: of two calls of generar_sismo that run at the same time with        *)
(* different arguments, each returns the record it returns when run alone. *)
C5_NoInterference ==
    \A th \in Threads, other \in Threads :
        (/\ pc[th] = "done"
         /\ ret[th].kind = "record"
         /\ ValidSynth(args[th])
         /\ op[other] = "generar_sismo"
         /\ ValidSynth(args[other])
         /\ args[other] # args[th])
            => ret[th].acc = RecordAlone(args[th])

Peak(a) == FMul(Lit(6, 10), a.intensidad)

(* C6: for valid arguments and a raw signal that is not zero everywhere,   *)
(* the normalized record has no sample above 0.6 intensity in magnitude    *)
(* and a sample of exactly that magnitude.                                 *)
C6_PeakScaled ==
    [][\A th \in Threads :
          (/\ pc[th] = "g_norm"
           /\ pc'[th] = "g_ret"
           /\ ValidSynth(args[th])
           /\ ~AllZero(loc[th].acc))
             => /\ \A i \in 1..Len(loc'[th].acc) :
                      /\ IsFinite(loc'[th].acc[i])
                      /\ Abs(loc'[th].acc[i]) <= Peak(args[th])
                /\ \E i \in 1..Len(loc'[th].acc) :
                      Abs(loc'[th].acc[i]) = Peak(args[th])]_vars

(* A record of valid arguments is normalized and has a sample that is      *)
(* neither zero nor the peak.                                              *)
C6_Witness ==
    /\ pc[Main] = "g_ret"
    /\ ValidSynth(args[Main])
    /\ \E i \in 1..Len(loc[Main].acc) :
          /\ loc[Main].acc[i] # 0
          /\ Abs(loc[Main].acc[i]) < Peak(args[Main])

ZeroResponse(r) == \A q \in SixSeries(r) : AllZero(q)

(* C8: resolver_sdof with valid parameters and a ground record that is     *)
(* zero everywhere stays at (0, 0) after every step, and every sample of   *)
(* the six series it returns is zero.                                      *)
C8_ZeroInZeroOut ==
    (/\ op[Main] = "resolver_sdof"
     /\ ValidSolve(args[Main])
     /\ AllZero(args[Main].acc_ground))
        => /\ sol.y = <<0, 0>>
           /\ AllZero(sol.x)
           /\ AllZero(sol.v)
           /\ sol.status # "failed"
           /\ ret[Main].kind = "tuple" => ZeroResponse(ret[Main])

(* A solve at rest over three samples has returned its tuple.              *)
C8_Witness ==
    /\ ret[Main].kind = "tuple"
    /\ ValidSolve(args[Main])
    /\ AllZero(args[Main].acc_ground)
    /\ Len(ret[Main].x) = 3
    /\ args[Main].c > 0

(* C9: no step of a call with valid arguments writes state that outlives   *)
(* the call: the process-wide generator and the page are after the step    *)
(* as they were before it.                                                 *)
C9_CallsArePure ==
    [][\A th \in Threads :
          (op[th] # "none" /\ pc[th] # "done" /\ ~Invalid(th))
             => (rng' = rng /\ emitted' = emitted)]_vars

(* The chord through samples j and j+1 of F_t, at time ti.                 *)
Chord(ti, j, t, F_t) ==
    FAdd(F_t[j], FRat(FSub(F_t[j + 1], F_t[j]), ti - t[j], Dt))

(* C10, as stated: every forcing the integrator used is on the chord       *)
(* through the two grid samples nearest to its time, past the last grid    *)
(* sample too.                                                             *)
C10_ChordEverywhere ==
    \A e \in sol.evals :
        LET t == loc[Main].t
            F_t == loc[Main].F_t
            n == Len(t)
        IN  e.Fi = IF n = 1 THEN F_t[1]
                   ELSE IF e.ti >= t[n] THEN Chord(e.ti, n - 1, t, F_t)
                   ELSE IF e.ti = t[IntervalOf(e.ti)] THEN F_t[IntervalOf(e.ti)]
                   ELSE Chord(e.ti, IntervalOf(e.ti), t, F_t)

(* C10, amended: up to the last grid sample the forcing used is the sample *)
(* at a grid time and on the chord through the two bracketing samples      *)
(* between grid times; past the last grid sample it is the last sample.    *)
C10_ChordThenHold ==
    \A e \in sol.evals :
        LET t == loc[Main].t
            F_t == loc[Main].F_t
            n == Len(t)
        IN  e.Fi = IF e.ti >= t[n] THEN F_t[n]
                   ELSE IF e.ti = t[IntervalOf(e.ti)] THEN F_t[IntervalOf(e.ti)]
                   ELSE Chord(e.ti, IntervalOf(e.ti), t, F_t)

(* The integrator has finished a run whose last two forcing samples differ *)
(* and whose last step took forcings past the last grid sample.            *)
C10_Witness ==
    /\ sol.status = "finished"
    /\ Len(loc[Main].t) = 3
    /\ AllFinite(loc[Main].F_t)
    /\ loc[Main].F_t[3] # loc[Main].F_t[2]
    /\ \E e \in sol.evals : e.ti > loc[Main].t[3] /\ e.ti < args[Main].T

=============================================================================
